---- MODULE Spec2Model ----
(***************************************************************************)
(* Typed value layer of kdbplus::rusty_api::types: the KVal sum type and   *)
(* its structural operations (to_compound_list, join, to_list), the KDict  *)
(* and KTable wrappers and their projections (get_column, get_row).        *)
(*                                                                         *)
(* Every operation is a pure function of its arguments, so each is an      *)
(* operator; the state machine is a caller that holds a value `a`, applies *)
(* one operation to it (drawing the other arguments from bounded sets) and *)
(* records the outcome in `res`.  An outcome is Ok(value), Err(message) or *)
(* Panic (the Rust code unwound: unimplemented!, index out of bounds, ...).*)
(*                                                                         *)
(* The caller may instead hold a raw K object, as q hands it over, and     *)
(* have it classified by KVal::from_raw or classified and converted back   *)
(* by to_k.  K::cast returns a reference to its by-value copy of the       *)
(* union, which is dead when the caller reads through it; `reads` records  *)
(* what such reads yield.                                                  *)
(***************************************************************************)
EXTENDS Integers, Sequences, FiniteSets, TLC

VARIABLES a, b, third, idx, srcs, debug_assertions, reads, plumber, op, res

vars == <<a, b, third, idx, srcs, debug_assertions, reads, plumber, op, res>>

(***************************************************************************)
(* Bounds of the model.                                                    *)
(***************************************************************************)
MaxElem == 1        \* scalar payloads are 0..MaxElem
MaxLen == 2         \* simple lists and strings have at most MaxLen elements
MaxCLen == 2        \* compound lists have at most MaxCLen elements
MaxCols == 2        \* tables have at most MaxCols columns
MaxSrcs == 2        \* get_row receives at most MaxSrcs enum sources

Elems == 0..MaxElem

SeqsUpTo(S, n) == UNION {[1..k -> S] : k \in 0..n}

(***************************************************************************)
(* Option<&str>: the enum source.                                          *)
(***************************************************************************)
None == "None"
Sources == {"e1", "e2"}
OptSources == Sources \cup {None}

OptOrOther(x, y) == IF y # None THEN y ELSE x

\* Option::or
OptOr(x, y) == IF x # None THEN x ELSE y

(***************************************************************************)
(* KVal.  A KData<T> is either Atom(x), a record with field `atom`, or     *)
(* List(l), a record with field `list`; the Enum variant carries `src`.    *)
(***************************************************************************)
SimpleVariants ==
    {"Bool", "Guid", "Byte", "Short", "Int", "Long", "Real", "Float",
     "Symbol", "Timestamp", "Month", "Date", "Datetime", "Timespan",
     "Minute", "Second", "Time"}

Atom(t, x) == [tag |-> t, atom |-> x]
List(t, l) == [tag |-> t, list |-> l]
EnumAtom(x, s) == [tag |-> "Enum", atom |-> x, src |-> s]
EnumList(l, s) == [tag |-> "Enum", list |-> l, src |-> s]
CompoundList(items) == [tag |-> "CompoundList", items |-> items]
Char(c) == [tag |-> "Char", ch |-> c]
String(s) == [tag |-> "String", str |-> s]
Error(m) == [tag |-> "Error", msg |-> m]
Null == [tag |-> "Null"]
KDict(k, v) == [keys |-> k, values |-> v]
Dictionary(d) == [tag |-> "Dictionary", dict |-> d]
KTable(d) == [dict |-> d]
Table(t) == [tag |-> "Table", table |-> t]

IsAtomData(v) == "atom" \in DOMAIN v
IsListData(v) == "list" \in DOMAIN v

(***************************************************************************)
(* Result<T, &'static str>, plus the outcome of a panic.  An error message *)
(* is the text of the literal and the number of NUL bytes that end it.     *)
(***************************************************************************)
Ok(v) == [st |-> "Ok", v |-> v]
Err(m) == [st |-> "Err", err |-> m]
Panic == [st |-> "Panic"]
NoRes == [st |-> "None"]

Msg_unterminated(text) == [text |-> text, nul |-> 0]

\* a literal "text\0"
Msg(text) == [text |-> text, nul |-> 1]

IsOk(r) == r.st = "Ok"
IsErr(r) == r.st = "Err"
IsPanic(r) == r.st = "Panic"

(***************************************************************************)
(* KVal::to_compound_list                                                  *)
(***************************************************************************)
to_compound_reversed(v) ==
    IF v.tag = "Enum"
    THEN CompoundList([i \in 1..Len(v.list) |->
                          EnumAtom(v.list[Len(v.list) + 1 - i], v.src)])
    ELSE CompoundList([i \in 1..Len(v.list) |->
                          Atom(v.tag, v.list[Len(v.list) + 1 - i])])

\* the macro to_compound!, both arms: one boxed atom per element, in order
to_compound(v) ==
    IF v.tag = "Enum"
    THEN CompoundList([i \in 1..Len(v.list) |-> EnumAtom(v.list[i], v.src)])
    ELSE CompoundList([i \in 1..Len(v.list) |-> Atom(v.tag, v.list[i])])

simple_to_compound_unsourced(v) ==
    IF v.tag \in SimpleVariants \cup {"Enum"} /\ IsListData(v)
    THEN Ok(to_compound(v))
    ELSE Err(Msg("self is not a simple list"))

\* the arms of the match for everything but a CompoundList
simple_to_compound(v) ==
    IF v.tag \in SimpleVariants /\ IsListData(v) THEN Ok(to_compound(v))
    ELSE IF v.tag = "Enum" /\ IsListData(v) THEN
        IF v.src = None
        THEN Err(Msg("Enum list must have exactly one source per atom"))
        ELSE Ok(to_compound(v))
    ELSE Err(Msg("self is not a simple list"))

to_compound_list_rejecting(v) ==
    IF v.tag = "CompoundList" THEN Err(Msg("self is not a simple list"))
    ELSE simple_to_compound(v)

to_compound_list(v) ==
    IF v.tag = "CompoundList" THEN Ok(CompoundList(v.items))
    ELSE simple_to_compound(v)

(***************************************************************************)
(* KVal::join                                                              *)
(***************************************************************************)
append_before(bs, o) == o \o bs

\* Vec::append: the elements of `o` are moved to the end of `bs`
append(bs, o) == bs \o o

simple_lists_any(base, other) ==
    /\ base.tag \in SimpleVariants
    /\ other.tag \in SimpleVariants
    /\ IsListData(base) /\ IsListData(other)

\* the patterns (V(List(bl)), V(List(ol))) of the seventeen simple variants
simple_lists(base, other) ==
    /\ base.tag \in SimpleVariants
    /\ other.tag = base.tag
    /\ IsListData(base) /\ IsListData(other)

\* the pattern (Enum(List(bl), bs), Enum(List(ol), os))
enum_lists_sourced(base, other) ==
    /\ base.tag = "Enum" /\ other.tag = "Enum"
    /\ IsListData(base) /\ IsListData(other)
    /\ other.src # None

enum_lists(base, other) ==
    /\ base.tag = "Enum" /\ other.tag = "Enum"
    /\ IsListData(base) /\ IsListData(other)

\* the elements of a KData, an atom counting as a list of one
data_items(v) == IF IsAtomData(v) THEN <<v.atom>> ELSE v.list

join_promoting(base, other) ==
    IF base.tag = "CompoundList" /\ other.tag = "CompoundList"
    THEN Ok(CompoundList(append(base.items, other.items)))
    ELSE IF base.tag \in SimpleVariants /\ other.tag = base.tag
    THEN Ok(List(base.tag, append(data_items(base), data_items(other))))
    ELSE IF base.tag = "Enum" /\ other.tag = "Enum"
    THEN Ok(EnumList(append(data_items(base), data_items(other)),
                     IF base.src # None THEN base.src ELSE other.src))
    ELSE Err(Msg("not a list or types do not match"))

join(base, other) ==
    IF base.tag = "CompoundList" /\ other.tag = "CompoundList"
    THEN Ok(CompoundList(append(base.items, other.items)))
    ELSE IF simple_lists(base, other)
    THEN Ok(List(base.tag, append(base.list, other.list)))
    ELSE IF enum_lists(base, other)
    THEN Ok(EnumList(append(base.list, other.list), OptOr(base.src, other.src)))
    ELSE Err(Msg("not a list or types do not match"))

(***************************************************************************)
(* KVal::to_list                                                           *)
(***************************************************************************)
vec1_empty(x) == <<>>

\* vec![atom.into_owned()]
vec1(x) == <<x>>

to_list(v) ==
    IF v.tag = "CompoundList" THEN Ok(CompoundList(v.items))
    ELSE IF v.tag \in SimpleVariants THEN
        IF IsAtomData(v) THEN Ok(List(v.tag, vec1(v.atom)))
        ELSE Ok(List(v.tag, v.list))
    ELSE IF v.tag = "Enum" THEN
        IF IsAtomData(v) THEN Ok(EnumList(vec1(v.atom), v.src))
        \* $enum_source.or_else(|| unimplemented!(..)) unwinds on None
        ELSE IF v.src = None THEN Panic
        ELSE Ok(EnumList(v.list, v.src))
    ELSE Err(Msg("invalid type"))

(***************************************************************************)
(* KVal::is_list, KData::len, KTable::len, KDict::len, KVal::len           *)
(***************************************************************************)
is_list(v) ==
    \/ v.tag = "CompoundList"
    \/ v.tag \in SimpleVariants \cup {"Enum"} /\ IsListData(v)
    \/ v.tag = "String"

KData_len_elements(v) == IF IsAtomData(v) THEN 0 ELSE Len(v.list)

KData_len(v) == IF IsAtomData(v) THEN 1 ELSE Len(v.list)

\* KData::is_empty
KData_is_empty(v) == IF IsAtomData(v) THEN FALSE ELSE v.list = <<>>

\* the value standing for a call of len() that unwound (unreachable!)
PanicLen == -1

RECURSIVE len(_)
KTable_len(t) ==
    IF t.dict.values.tag = "CompoundList"
    THEN IF t.dict.values.items # <<>> THEN len(t.dict.values.items[1]) ELSE 0
    ELSE PanicLen

KDict_len(d) == len(d.keys)

len(v) ==
    CASE v.tag = "CompoundList" -> Len(v.items)
      [] v.tag \in SimpleVariants \cup {"Enum"} -> KData_len(v)
      [] v.tag = "Char" -> 1
      [] v.tag = "String" -> Len(v.str)
      [] v.tag = "Error" -> 1
      [] v.tag = "Table" -> KTable_len(v.table)
      [] v.tag = "Dictionary" -> KDict_len(v.dict)
      [] v.tag = "Null" -> 1

KDict_is_empty(d) == KDict_len(d) = 0

(***************************************************************************)
(* KDict::new                                                              *)
(***************************************************************************)
KDict_new_unmeasured(keys, values) ==
    IF ~is_list(keys) THEN Err(Msg("invalid keys, must be a list"))
    ELSE IF ~is_list(values) THEN Err(Msg("invalid values, must be a list"))
    ELSE Ok(KDict(keys, values))

KDict_new(keys, values) ==
    IF ~is_list(keys) THEN Err(Msg("invalid keys, must be a list"))
    ELSE IF ~is_list(values) THEN Err(Msg("invalid values, must be a list"))
    ELSE IF len(keys) # len(values)
    THEN Err(Msg("invalid dictionary, keys and values must be of equal length"))
    ELSE Ok(KDict(keys, values))

(***************************************************************************)
(* KTable::new.  dbg is cfg(debug_assertions): the scan of the columns is   *)
(* compiled only when it is on.                                            *)
(***************************************************************************)
KTable_new(kdict, dbg) ==
    IF ~(kdict.keys.tag = "Symbol" /\ IsListData(kdict.keys))
    THEN Err(Msg("keys must be a symbol list"))
    ELSE IF kdict.values.tag # "CompoundList"
    THEN Err(Msg("columns must be in a compound list"))
    ELSE IF dbg THEN
        LET columns == kdict.values.items IN
        \* columns[0] on an empty Vec is an index out of bounds
        IF columns = <<>> THEN Panic
        ELSE LET n == len(columns[1]) IN
             IF \A i \in 1..Len(columns) :
                    len(columns[i]) = n /\ is_list(columns[i])
             THEN Ok(KTable(kdict))
             ELSE Err(Msg("invalid table, all columns must be lists with the same length"))
    ELSE Ok(KTable(kdict))

(***************************************************************************)
(* slice::get(index as usize): a negative i64 becomes a usize of at least  *)
(* 2^63, which is past the end of every Vec, so get returns None for it.   *)
(***************************************************************************)
InRange(s, index) == index >= 0 /\ index < Len(s)

(***************************************************************************)
(* KTable::get_column                                                      *)
(***************************************************************************)
column_source_recorded(enum_source, src) == OptOr(src, enum_source)

\* enum_source.or(*src)
column_source(enum_source, src) == OptOr(enum_source, src)

get_column_unlisted(t, index, enum_source) ==
    IF t.dict.values.tag # "CompoundList"
    THEN Err(Msg("values must be a compound list"))
    ELSE IF ~InRange(t.dict.values.items, index)
    THEN Err(Msg("invalid column index"))
    ELSE LET column == t.dict.values.items[index + 1] IN
         IF column.tag = "Enum" /\ IsListData(column) THEN
             LET source == column_source(enum_source, column.src) IN
             IF source = None
             THEN Err(Msg("enum_source must be provided for enumerated columns"))
             ELSE Ok(EnumList(column.list, source))
         ELSE Ok(column)

get_column(t, index, enum_source) ==
    IF t.dict.values.tag # "CompoundList"
    THEN Err(Msg("values must be a compound list"))
    ELSE IF ~InRange(t.dict.values.items, index)
    THEN Err(Msg("invalid column index"))
    ELSE LET column == t.dict.values.items[index + 1] IN
         IF ~is_list(column) THEN Err(Msg("columns must be lists"))
         ELSE IF column.tag = "Enum" THEN
             LET source == column_source(enum_source, column.src) IN
             IF source = None
             THEN Err(Msg("enum_source must be provided for enumerated columns"))
             ELSE Ok(EnumList(column.list, source))
         ELSE Ok(column)

(***************************************************************************)
(* KTable::get_row                                                         *)
(***************************************************************************)
\* number of Enum list columns among the first n columns: the value of
\* enum_index when column n + 1 is visited
RECURSIVE enum_index(_, _)
enum_index(columns, n) ==
    IF n = 0 THEN 0
    ELSE enum_index(columns, n - 1)
         + (IF columns[n].tag = "Enum" /\ IsListData(columns[n]) THEN 1 ELSE 0)

\* enum_sources.get(enum_index).unwrap_or(src)
enum_source_of(enum_sources, k, src) ==
    IF k + 1 <= Len(enum_sources) THEN enum_sources[k + 1] ELSE src

nth_first(s, index) == s[1]

\* the element slice::get(index as usize) returns when the index is in range
nth(s, index) == s[index + 1]

\* the match on one column of the loop: the value at row `index`, or the error
value_of_column_at_row(columns, j, index, enum_sources) ==
    LET column == columns[j]
        oob == Err(Msg("index out of bounds, columns were not the same length"))
    IN
    IF column.tag = "Enum" /\ IsListData(column) THEN
        LET enum_source ==
                enum_source_of(enum_sources, enum_index(columns, j - 1), column.src)
        IN IF enum_source = None
           THEN Err(Msg("enum source must be provided for enumerated columns"))
           ELSE IF ~InRange(column.list, index) THEN oob
           ELSE Ok(EnumAtom(nth(column.list, index), enum_source))
    ELSE IF column.tag = "CompoundList" THEN
        IF ~InRange(column.items, index) THEN oob
        ELSE Ok(nth(column.items, index))
    ELSE IF column.tag \in SimpleVariants /\ IsListData(column) THEN
        IF ~InRange(column.list, index) THEN oob
        ELSE Ok(Atom(column.tag, nth(column.list, index)))
    ELSE IF column.tag = "String" THEN
        IF ~InRange(column.str, index) THEN oob
        ELSE Ok(Char(nth(column.str, index)))
    ELSE Err(Msg("columns must each be lists, within a compound list"))

\* the for loop over the columns: the row built so far, or the first error
RECURSIVE row_loop(_, _, _, _)
row_loop(columns, n, index, enum_sources) ==
    IF n = 0 THEN Ok(<<>>)
    ELSE LET prev == row_loop(columns, n - 1, index, enum_sources) IN
         IF ~IsOk(prev) THEN prev
         ELSE LET cell == value_of_column_at_row(columns, n, index, enum_sources) IN
              IF ~IsOk(cell) THEN cell
              ELSE Ok(Append(prev.v, cell.v))

get_row(t, index, enum_sources) ==
    LET first == IF ~KDict_is_empty(t.dict) /\ enum_sources # <<>>
                 THEN get_column(t, 0, enum_sources[1])
                 ELSE NoRes
    IN
    IF IsErr(first) THEN first
    ELSE IF IsOk(first) /\ index >= len(first.v)
    THEN Err(Msg("index out of bounds"))
    ELSE IF t.dict.values.tag # "CompoundList"
    THEN Err(Msg("values must be a compound list"))
    ELSE LET row == row_loop(t.dict.values.items, Len(t.dict.values.items),
                             index, enum_sources)
         IN IF ~IsOk(row) THEN row
            ELSE LET d == KDict_new(t.dict.keys, CompoundList(row.v)) IN
                 IF IsOk(d) THEN Ok(Dictionary(d.v)) ELSE d

(***************************************************************************)
(* Raw K objects.  An atom carries `value`, a list its elements (n is      *)
(* their number, g0 their storage) as `list`, or as `ptrs` when they are   *)
(* pointers to K objects, a table the pointer `table`; a *const K is such  *)
(* an object or the null pointer.                                          *)
(***************************************************************************)
ERROR == -128
ENUM_ATOM == -20
SYMBOL_ATOM == -11
CHAR == -10
GUID_ATOM == -2
COMPOUND_LIST == 0
qtype_STRING == 10
ENUM_LIST == 20
TABLE == 98
DICTIONARY == 99
FOREIGN == 112
SORTED_DICTIONARY == 127

\* a GUID is lower + HalfGuids * upper, each half of its bytes a payload
HalfGuids == MaxElem + 1

NullPtr == [null |-> TRUE]
RawAtom(t, x) == [qtype |-> t, value |-> x]
RawList(t, l) == [qtype |-> t, list |-> l]
RawPtrList(t, l) == [qtype |-> t, ptrs |-> l]
RawTable(d) == [qtype |-> TABLE, table |-> d]
RawError(m) == [qtype |-> ERROR, symbol |-> m]

IsNullPtr(k) == "null" \in DOMAIN k

\* the variant KVal::from gives the list tag t and the atom tag -t
variant(t) ==
    CASE t = 1 -> "Bool"
      [] t = 2 -> "Guid"
      [] t = 4 -> "Byte"
      [] t = 5 -> "Short"
      [] t = 6 -> "Int"
      [] t = 7 -> "Long"
      [] t = 8 -> "Real"
      [] t = 9 -> "Float"
      [] t = 11 -> "Symbol"
      [] t = 12 -> "Timestamp"
      [] t = 13 -> "Month"
      [] t = 14 -> "Date"
      [] t = 15 -> "Datetime"
      [] t = 16 -> "Timespan"
      [] t = 17 -> "Minute"
      [] t = 18 -> "Second"
      [] t = 19 -> "Time"
      [] OTHER -> "Null"

\* K::as_slice: Ok for the list tags, a dictionary and a table
\* K::as_slice_unchecked: n elements from g0
as_slice_unchecked(k) == IF "ptrs" \in DOMAIN k THEN k.ptrs ELSE k.list

as_slice(k) ==
    IF k.qtype \in COMPOUND_LIST..ENUM_LIST \cup {DICTIONARY, TABLE}
    THEN Ok(as_slice_unchecked(k))
    ELSE Err("not a list")

\* SafeToCastFromKInner::cast::<T>: a reference to the callee's copy of the
\* union, read by the caller after the callee returned
cast(inner, T, r) ==
    IF r.intact THEN inner
    ELSE IF T = "*mut K" THEN r.pointee ELSE r.bytes

\* SafeToCastFromKInner::cast_with_ptr_offset::<[u8; 16]>: 16 bytes from byte
\* 8 of the 16-byte copy, so the upper half lies beyond the copy
cast_with_ptr_offset(inner, r) ==
    (IF r.intact THEN inner % HalfGuids ELSE r.bytes) + HalfGuids * r.bytes

\* std::str::from_utf8 accepts the bytes
is_utf8(bytes) == \A i \in 1..Len(bytes) : bytes[i] < 128

\* Vec<Result>::collect of the outcomes of the elements
collect(outcomes) ==
    IF \E i \in 1..Len(outcomes) : IsPanic(outcomes[i]) THEN Panic
    ELSE Ok([i \in 1..Len(outcomes) |-> outcomes[i].v])

RECURSIVE KVal_from(_, _, _, _)

\* KVal::from_raw
from_raw(k, enum_source, dbg, r) ==
    IF IsNullPtr(k) THEN Ok(Null) ELSE KVal_from(k, enum_source, dbg, r)

\* KDict::new_from_k
KDict_new_from_k(k, dbg, r) ==
    IF dbg /\ k.qtype \notin {DICTIONARY, SORTED_DICTIONARY} THEN Panic
    ELSE IF ~IsOk(as_slice(k)) THEN Panic
    ELSE LET slice == as_slice(k).v IN
         IF dbg /\ Len(slice) # 2 THEN Panic
         ELSE IF Len(slice) < 2 THEN Panic
         ELSE LET keys == from_raw(slice[1], None, dbg, r)
                  values == from_raw(slice[2], None, dbg, r)
              IN IF IsPanic(keys) \/ IsPanic(values) THEN Panic
                 ELSE Ok(KDict(keys.v, values.v))

\* KTable::new_from_k
KTable_new_from_k(k, dbg, r) ==
    IF dbg /\ k.qtype # TABLE THEN Panic
    ELSE LET dict == KDict_new_from_k(cast(k.table, "*mut K", r), dbg, r) IN
         IF IsPanic(dict) THEN Panic
         ELSE IF dict.v.values.tag = "CompoundList" THEN Ok(KTable(dict.v))
         ELSE LET wrapped == KDict_new(dict.v.keys, CompoundList(<<dict.v.values>>))
              IN IF IsOk(wrapped) THEN Ok(KTable(wrapped.v)) ELSE Panic

\* KVal::from
KVal_from(k, enum_source, dbg, r) ==
    CASE k.qtype = ERROR ->
            IF IsOk(as_slice(k)) /\ is_utf8(as_slice(k).v)
            THEN Ok(Error(as_slice(k).v)) ELSE Panic
      [] k.qtype = ENUM_ATOM -> Ok(EnumAtom(cast(k.value, "J", r), enum_source))
      [] k.qtype = SYMBOL_ATOM -> Ok(Atom("Symbol", cast(k.value, "S", r)))
      [] k.qtype = CHAR -> Ok(Char(k.value))
      [] k.qtype = GUID_ATOM -> Ok(Atom("Guid", cast_with_ptr_offset(k.value, r)))
      [] k.qtype \in -19..-1 /\ k.qtype \notin {SYMBOL_ATOM, CHAR, GUID_ATOM}
                            /\ variant(-k.qtype) # "Null" ->
            Ok(Atom(variant(-k.qtype), cast(k.value, "T", r)))
      [] k.qtype = COMPOUND_LIST ->
            LET slice == as_slice(k).v
                items == collect([i \in 1..Len(slice) |->
                                    from_raw(slice[i], enum_source, dbg, r)])
            IN IF IsPanic(items) THEN Panic ELSE Ok(CompoundList(items.v))
      [] k.qtype = qtype_STRING ->
            IF is_utf8(as_slice(k).v) THEN Ok(String(as_slice(k).v)) ELSE Panic
      [] k.qtype = ENUM_LIST -> Ok(EnumList(as_slice(k).v, enum_source))
      [] k.qtype \in 1..19 /\ k.qtype # qtype_STRING /\ variant(k.qtype) # "Null" ->
            Ok(List(variant(k.qtype), as_slice(k).v))
      [] k.qtype = TABLE ->
            LET table == KTable_new_from_k(k, dbg, r) IN
            IF IsPanic(table) THEN Panic ELSE Ok(Table(table.v))
      [] k.qtype \in {DICTIONARY, SORTED_DICTIONARY} ->
            LET dict == KDict_new_from_k(k, dbg, r) IN
            IF IsPanic(dict) THEN Panic ELSE Ok(Dictionary(dict.v))
      [] k.qtype = FOREIGN -> Panic
      [] OTHER -> Ok(Null)

(***************************************************************************)
(* KVal::to_k and the constructors of re_exports it calls.                 *)
(***************************************************************************)
NULL == 101

\* the list tag the arms of to_k pass to new_list for a simple variant
list_qtype(t) ==
    CASE t = "Bool" -> 1
      [] t = "Guid" -> 2
      [] t = "Byte" -> 4
      [] t = "Short" -> 5
      [] t = "Int" -> 6
      [] t = "Long" -> 7
      [] t = "Real" -> 8
      [] t = "Float" -> 9
      [] t = "Symbol" -> 11
      [] t = "Timestamp" -> 12
      [] t = "Month" -> 13
      [] t = "Date" -> 14
      [] t = "Datetime" -> 15
      [] t = "Timespan" -> 16
      [] t = "Minute" -> 17
      [] t = "Second" -> 18
      [] t = "Time" -> 19

\* the enumeration domains the q process defines, by name: their lengths
q_enums == [s \in Sources |-> MaxElem + 1]

\* re_exports::new_enum
new_enum(source, index) ==
    IF source \notin DOMAIN q_enums THEN RawError(source)
    ELSE IF q_enums[source] <= index THEN RawError("index out of enum range")
    ELSE RawAtom(ENUM_ATOM, index)

\* the C string str_to_S! builds: the bytes up to the first NUL
RECURSIVE c_str(_)
c_str(bytes) ==
    IF bytes = <<>> \/ Head(bytes) = 0 THEN <<>>
    ELSE <<Head(bytes)>> \o c_str(Tail(bytes))

\* re_exports::new_string
new_string(string) == RawList(qtype_STRING, c_str(string))

\* re_exports::flip
flip(dictionary) ==
    IF dictionary.qtype = DICTIONARY THEN RawTable(dictionary)
    ELSE RawError("not a dictionary")

\* re_exports::new_error
new_error(message) == RawError(message)

RECURSIVE to_k(_)
to_k(v) ==
    CASE v.tag = "CompoundList" ->
            LET items == collect([i \in 1..Len(v.items) |-> to_k(v.items[i])])
            IN IF IsPanic(items) THEN Panic
               ELSE Ok(RawPtrList(COMPOUND_LIST, items.v))
      [] v.tag \in SimpleVariants /\ IsAtomData(v) ->
            Ok(RawAtom(-list_qtype(v.tag), v.atom))
      [] v.tag \in SimpleVariants /\ IsListData(v) ->
            Ok(RawList(list_qtype(v.tag), v.list))
      [] v.tag = "Enum" /\ IsAtomData(v) ->
            IF v.src = None THEN Panic ELSE Ok(new_enum(v.src, v.atom))
      [] v.tag = "Enum" /\ IsListData(v) -> Ok(RawList(ENUM_LIST, v.list))
      [] v.tag = "Char" -> Ok(RawAtom(CHAR, v.ch))
      [] v.tag = "String" -> Ok(new_string(v.str))
      [] v.tag = "Error" -> Ok(new_error(v.msg))
      [] v.tag = "Null" -> Ok(RawAtom(NULL, 0))
      [] v.tag = "Dictionary" ->
            LET keys == to_k(v.dict.keys)
                values == to_k(v.dict.values)
            IN IF IsPanic(keys) \/ IsPanic(values) THEN Panic
               ELSE Ok(RawPtrList(DICTIONARY, <<keys.v, values.v>>))
      [] v.tag = "Table" ->
            LET keys == to_k(v.table.dict.keys)
                values == to_k(v.table.dict.values)
            IN IF IsPanic(keys) \/ IsPanic(values) THEN Panic
               ELSE Ok(flip(RawPtrList(DICTIONARY, <<keys.v, values.v>>)))

(***************************************************************************)
(* Cow<[T]>: Borrowed aliases the elements of the raw list it was taken    *)
(* from, Owned holds elements of its own.  modify_long_list_a_bit of the   *)
(* examples writes through one; `mem` is the raw list afterwards.          *)
(***************************************************************************)
Borrowed(l) == [cow |-> "Borrowed", data |-> l]
Owned(l) == [cow |-> "Owned", data |-> l]

\* KData::list
KData_list(k) == Borrowed(as_slice(k).v)

to_mut_in_place(cw) == cw

\* Cow::to_mut: borrowed data is cloned into an owned vector first
to_mut(cw) == IF cw.cow = "Borrowed" THEN Owned(cw.data) ELSE cw

\* the value the example stores at position 1
Written == 30000

modify_long_list_a_bit(long_list, dbg, r) ==
    LET v == from_raw(long_list, None, dbg, r) IN
    IF IsPanic(v) THEN [ret |-> Panic, mem |-> long_list]
    ELSE IF v.v.tag = "Long" /\ IsListData(v.v) THEN
        LET list == KData_list(long_list) IN
        IF Len(list.data) < 2
        THEN [ret |-> Ok(new_error(Msg("this list is not long enough. how ironic..."))),
              mem |-> long_list]
        ELSE LET m == to_mut(list)
                 stored == [m.data EXCEPT ![2] = Written]
             IN [ret |-> to_k(List("Long", stored)),
                 mem |-> IF m.cow = "Borrowed"
                         THEN RawList(long_list.qtype, stored)
                         ELSE long_list]
    ELSE [ret |-> Ok(new_error(Msg("invalid type"))), mem |-> long_list]

(***************************************************************************)
(* The state of the Cow of every KData in a value: CowBorrowed or CowOwned *)
(* for a simple variant, a String or an Error (CowOwned for the variants   *)
(* that hold no Cow), `items` for a compound list, `keys` and `values` for *)
(* a dictionary or a table.  Cow::clone keeps the state, so to_owned() of  *)
(* a KVal does.                                                            *)
(***************************************************************************)
CowBorrowed == [cow |-> "Borrowed"]
CowOwned == [cow |-> "Owned"]

RECURSIVE cow_from(_, _)

\* KVal::from_raw
cow_from_raw(k, r) == IF IsNullPtr(k) THEN CowOwned ELSE cow_from(k, r)

\* KDict::new_from_k
cow_KDict_new_from_k(k, r) ==
    LET slice == as_slice(k).v
    IN [keys |-> cow_from_raw(slice[1], r), values |-> cow_from_raw(slice[2], r)]

\* KTable::new_from_k: the lone column is cloned into a compound list
cow_KTable_new_from_k(k, r) ==
    LET pointee == cast(k.table, "*mut K", r)
        dict == cow_KDict_new_from_k(pointee, r)
    IN IF as_slice(pointee).v[2].qtype = COMPOUND_LIST THEN dict
       ELSE [keys |-> dict.keys, values |-> [items |-> <<dict.values>>]]

\* KVal::from: KData::atom and KData::list borrow, KData::symbol and
\* KData::symbol_list own
cow_from(k, r) ==
    CASE k.qtype \in {SYMBOL_ATOM, CHAR, list_qtype("Symbol")} -> CowOwned
      [] k.qtype = COMPOUND_LIST ->
            [items |-> [i \in 1..Len(as_slice(k).v) |->
                            cow_from_raw(as_slice(k).v[i], r)]]
      [] k.qtype = TABLE -> cow_KTable_new_from_k(k, r)
      [] k.qtype \in {DICTIONARY, SORTED_DICTIONARY} -> cow_KDict_new_from_k(k, r)
      [] k.qtype = ERROR \/ k.qtype = qtype_STRING -> CowBorrowed
      [] k.qtype \in ENUM_ATOM..ENUM_LIST /\ k.qtype \notin {-3, 3} -> CowBorrowed
      [] OTHER -> CowOwned

\* KVal::to_compound_list
cow_to_compound_list(v, cw) ==
    IF v.tag = "CompoundList" THEN cw
    ELSE [items |-> [i \in 1..Len(v.list) |-> CowOwned]]

\* KVal::join
cow_join(base, cwb, other, cwo) ==
    IF base.tag = "CompoundList"
    THEN [items |-> append(cwb.items, cwo.items)]
    ELSE CowOwned

\* KTable::get_column
cow_get_column(t, cw, index) ==
    LET column == t.dict.values.items[index + 1] IN
    IF column.tag = "Enum" THEN CowOwned ELSE cw.values.items[index + 1]

\* KTable::get_row
cow_get_row(t, cw, index) ==
    [keys |-> cw.keys,
     values |-> [items |-> [j \in 1..Len(t.dict.values.items) |->
                    IF t.dict.values.items[j].tag = "CompoundList"
                    THEN cw.values.items[j].items[index + 1]
                    ELSE CowOwned]]]

\* Ok(v) together with the Cow states of v
OkCow(v, cw) == [st |-> "Ok", v |-> v, cow |-> cw]

(***************************************************************************)
(* The values a caller can hold.                                           *)
(***************************************************************************)
SimpleAtoms == {Atom(t, x) : t \in SimpleVariants, x \in Elems}
SimpleLists == {List(t, l) : t \in SimpleVariants, l \in SeqsUpTo(Elems, MaxLen)}
EnumAtoms == {EnumAtom(x, s) : x \in Elems, s \in OptSources}
EnumLists == {EnumList(l, s) : l \in SeqsUpTo(Elems, MaxLen), s \in OptSources}
Chars == {Char(c) : c \in Elems}
Strings == {String(s) : s \in SeqsUpTo(Elems, MaxLen)}

\* 0, 1, .., MaxElem, 0, 1, ..: a list of k elements
Ramp(k) == [i \in 1..k |-> (i - 1) % (MaxElem + 1)]

\* the elements compound lists are built from
CElems ==
    {Atom("Int", 0), Atom("Symbol", MaxElem), EnumAtom(0, "e1"),
     EnumAtom(MaxElem, None), List("Long", Ramp(MaxLen)), CompoundList(<<>>)}

CompoundLists == {CompoundList(s) : s \in SeqsUpTo(CElems, MaxCLen)}

\* column names: a symbol list of k distinct symbols
ColNames(k) == List("Symbol", [i \in 1..k |-> i - 1])

\* the columns tables are built from; the last one is not a list
ColCands ==
    {List("Long", Ramp(k)) : k \in 0..MaxLen}
    \cup {EnumList(Ramp(MaxLen), s) : s \in {None, "e1"}}
    \cup {String(Ramp(MaxLen)),
          CompoundList([i \in 1..MaxLen |-> Atom("Int", Ramp(MaxLen)[i])]),
          Atom("Long", 0)}

DictKeyCands ==
    {ColNames(k) : k \in 0..MaxCols} \cup {List("Long", Ramp(1)), Atom("Symbol", 0)}

DictValCands ==
    {CompoundList(cs) : cs \in SeqsUpTo(ColCands, MaxCols)}
    \cup {List("Long", Ramp(1)), Atom("Long", 0)}

\* the dictionaries KDict::new returns
DictVals ==
    {Dictionary(KDict_new(p[1], p[2]).v) :
        p \in {q \in DictKeyCands \X DictValCands : IsOk(KDict_new(q[1], q[2]))}}

\* the tables KTable::new returns in the given build
TableVals(dbg) ==
    {Table(KTable_new(d.dict, dbg).v) :
        d \in {e \in DictVals : IsOk(KTable_new(e.dict, dbg))}}

SampleDict == Dictionary(KDict(ColNames(1), List("Long", Ramp(1))))
SampleTable ==
    Table(KTable(KDict(ColNames(1), CompoundList(<<List("Long", Ramp(MaxLen))>>))))

\* the operands of to_compound_list, join, to_list and KDict::new
Vals ==
    SimpleAtoms \cup SimpleLists \cup EnumAtoms \cup EnumLists \cup Chars
    \cup Strings \cup CompoundLists
    \cup {Error("type"), Null, SampleDict, SampleTable}

\* the raw values q can hand over
Guids == 0..(HalfGuids * HalfGuids - 1)
RawBytes == Elems \cup {255}

RawAtoms ==
    {RawAtom(-t, x) : t \in (1..ENUM_LIST) \ {-GUID_ATOM}, x \in Elems}
    \cup {RawAtom(GUID_ATOM, g) : g \in Guids}

RawLists ==
    {RawList(t, l) : t \in (1..ENUM_LIST) \ {-GUID_ATOM, qtype_STRING},
                     l \in SeqsUpTo(Elems, MaxLen)}
    \cup {RawList(-GUID_ATOM, l) : l \in SeqsUpTo(Guids, MaxLen)}
    \cup {RawList(qtype_STRING, l) : l \in SeqsUpTo(RawBytes, MaxLen)}

RawOthers ==
    {RawAtom(t, 0) : t \in {21, 97, 100, NULL, FOREIGN}}
    \cup {RawError("type")}

RawCElems ==
    {RawAtom(-7, 0), RawAtom(ENUM_ATOM, MaxElem), RawList(7, Ramp(MaxLen)),
     NullPtr, RawAtom(FOREIGN, 0)}

RawCompounds == {RawPtrList(COMPOUND_LIST, s) : s \in SeqsUpTo(RawCElems, MaxCLen)}

RawColCands ==
    {RawList(7, Ramp(k)) : k \in 0..MaxLen}
    \cup {RawList(ENUM_LIST, Ramp(MaxLen)), RawList(qtype_STRING, Ramp(MaxLen))}

RawDictKeys == {RawList(11, ColNames(k).list) : k \in 0..MaxCols}

RawDictValues ==
    {RawPtrList(COMPOUND_LIST, cs) : cs \in SeqsUpTo(RawColCands, MaxCols)}
    \cup {RawList(7, Ramp(k)) : k \in 0..MaxLen}
    \cup {RawAtom(-7, 0)}

RawDicts ==
    {RawPtrList(t, <<k, v>>) : t \in {DICTIONARY, SORTED_DICTIONARY},
                            k \in RawDictKeys, v \in RawDictValues}
    \cup {RawPtrList(DICTIONARY, <<k>>) : k \in RawDictKeys}

RawTables == {RawTable(d) : d \in {e \in RawDicts : e.qtype = DICTIONARY}}

Raws ==
    {NullPtr} \cup RawAtoms \cup RawLists \cup RawOthers \cup RawCompounds
    \cup RawDicts \cup RawTables

\* the second and the third operand of a chain of joins
JoinOperands ==
    {List("Long", <<>>), List("Long", Ramp(MaxLen)), List("Int", Ramp(1)),
     Atom("Long", 0), EnumList(<<>>, None), EnumList(Ramp(1), None),
     EnumList(Ramp(MaxLen), "e1"), EnumList(Ramp(1), "e2"), EnumAtom(0, "e1"),
     CompoundList(<<>>), CompoundList(<<Atom("Int", 0)>>),
     CompoundList(<<EnumAtom(0, "e1"), List("Long", Ramp(MaxLen))>>),
     Char(0), String(Ramp(1)), Error("type"), Null, SampleDict, SampleTable}

\* the second operand of a join of dispatched values
RawOperands ==
    {RawList(7, Ramp(MaxLen)), RawList(ENUM_LIST, Ramp(1)), RawAtom(-7, 0),
     RawPtrList(COMPOUND_LIST, <<RawList(7, Ramp(1))>>)}

\* what a stale pointer to a K object can address
StalePointees ==
    {RawPtrList(DICTIONARY, <<RawList(11, ColNames(1).list), RawList(7, <<>>)>>),
     RawPtrList(DICTIONARY, <<RawList(11, ColNames(1).list),
                              RawPtrList(COMPOUND_LIST, <<>>)>>),
     RawAtom(-7, 0)}

\* what the reads through the references cast returned yield
Reads == [intact : BOOLEAN, bytes : Elems, pointee : StalePointees]

Indices == -1..(MaxLen + 1)

(***************************************************************************)
(* The plumber example: q calls plumber on its main thread; plumber makes  *)
(* a pipe, registers callback on the read end, pins the symbol table,      *)
(* spawns a worker that builds a symbol list and writes its pointer to the *)
(* pipe, joins the worker, unpins and returns.  q runs callback from its   *)
(* main loop when the read end is readable.  The record plumber holds the  *)
(* position of the main thread and of the worker, the value of q's setm    *)
(* flag, q's symbol table, the list the worker is filling, the pointers    *)
(* waiting in the pipe and, for the running call, whether it has pinned    *)
(* and whether it has spawned.                                             *)
(***************************************************************************)
MaxCalls == 3

precious == <<"belief", "love", "hope">>

PlumberLoaded ==
    [main |-> "q", worker |-> "none", setm |-> 0, symbols |-> {},
     list |-> <<>>, pipe |-> 0, calls |-> 0, pinned |-> FALSE,
     spawned |-> FALSE, ret |-> "none"]

\* native::setm(m): sets the flag of the symbol lock
setm_keep(p, m) == p

setm(p, m) == [p EXCEPT !.setm = m]

pin_symbol(p) == [setm(p, 1) EXCEPT !.pinned = TRUE]

unpin_symbol(p) == setm(p, 0)

\* native::ss: interns the string in q's symbol table
enumerate(p, s) ==
    [p EXCEPT !.symbols = @ \cup {s}, !.list = Append(@, s)]

(***************************************************************************)
(* The caller.                                                             *)
(***************************************************************************)
Init ==
    /\ debug_assertions \in BOOLEAN
    /\ a \in Vals \cup DictVals \cup TableVals(debug_assertions) \cup Raws
    /\ b = Null
    /\ third = Null
    /\ reads = CHOOSE r \in Reads : r.intact
    /\ plumber = PlumberLoaded
    /\ idx = 0
    /\ srcs = <<>>
    /\ op = "init"
    /\ res = NoRes

ToCompoundList ==
    /\ op = "init"
    /\ a \in Vals
    /\ res' = to_compound_list(a)
    /\ op' = "to_compound_list"
    /\ UNCHANGED <<a, b, third, idx, srcs, debug_assertions, reads, plumber>>

Join ==
    /\ op = "init"
    /\ a \in Vals
    /\ \E other \in Vals :
        /\ b' = other
        /\ res' = join(a, other)
    /\ op' = "join"
    /\ UNCHANGED <<a, third, idx, srcs, debug_assertions, reads, plumber>>

ToList ==
    /\ op = "init"
    /\ a \in Vals
    /\ res' = to_list(a)
    /\ op' = "to_list"
    /\ UNCHANGED <<a, b, third, idx, srcs, debug_assertions, reads, plumber>>

KDictNew ==
    /\ op = "init"
    /\ a \in Vals
    /\ \E values \in DictValCands \cup {Null, String(Ramp(1))} :
        /\ b' = values
        /\ res' = KDict_new(a, values)
    /\ op' = "KDict::new"
    /\ UNCHANGED <<a, third, idx, srcs, debug_assertions, reads, plumber>>

KTableNew ==
    /\ op = "init"
    /\ a \in DictVals
    /\ res' = KTable_new(a.dict, debug_assertions)
    /\ op' = "KTable::new"
    /\ UNCHANGED <<a, b, third, idx, srcs, debug_assertions, reads, plumber>>

GetColumn ==
    /\ op = "init"
    /\ a \in TableVals(debug_assertions)
    /\ \E index \in Indices, enum_source \in OptSources :
        /\ idx' = index
        /\ srcs' = <<enum_source>>
        /\ res' = get_column(a.table, index, enum_source)
    /\ op' = "get_column"
    /\ UNCHANGED <<a, b, third, debug_assertions, reads, plumber>>

GetRow ==
    /\ op = "init"
    /\ a \in TableVals(debug_assertions)
    /\ \E index \in Indices, enum_sources \in SeqsUpTo(OptSources, MaxSrcs) :
        /\ idx' = index
        /\ srcs' = enum_sources
        /\ res' = get_row(a.table, index, enum_sources)
    /\ op' = "get_row"
    /\ UNCHANGED <<a, b, third, debug_assertions, reads, plumber>>

FromRaw ==
    /\ op = "init"
    /\ a \in Raws
    /\ \E enum_source \in OptSources, r \in Reads :
        /\ srcs' = <<enum_source>>
        /\ reads' = r
        /\ res' = from_raw(a, enum_source, debug_assertions, r)
    /\ op' = "KVal::from_raw"
    /\ UNCHANGED <<a, b, third, idx, debug_assertions, plumber>>

\* to_k(KVal::from_raw(a, enum_source))
ToK ==
    /\ op = "init"
    /\ a \in Raws
    /\ \E enum_source \in OptSources, r \in Reads :
        /\ srcs' = <<enum_source>>
        /\ reads' = r
        /\ res' = LET v == from_raw(a, enum_source, debug_assertions, r)
                  IN IF IsPanic(v) THEN Panic ELSE to_k(v.v)
    /\ op' = "to_k"
    /\ UNCHANGED <<a, b, third, idx, debug_assertions, plumber>>

ModifyLongListABit ==
    /\ op = "init"
    /\ a \in Raws
    /\ \E r \in Reads :
        /\ reads' = r
        /\ LET m == modify_long_list_a_bit(a, debug_assertions, r)
           IN res' = m.ret /\ a' = m.mem
    /\ op' = "modify_long_list_a_bit"
    /\ UNCHANGED <<b, third, idx, srcs, debug_assertions, plumber>>

\* KVal::from_raw(a, enum_source).to_compound_list()
FromRawToCompoundList ==
    /\ op = "init"
    /\ a \in Raws
    /\ \E enum_source \in OptSources, r \in Reads :
        /\ srcs' = <<enum_source>>
        /\ reads' = r
        /\ res' = LET v == from_raw(a, enum_source, debug_assertions, r) IN
                  IF IsPanic(v) THEN Panic
                  ELSE LET o == to_compound_list(v.v) IN
                       IF IsOk(o)
                       THEN OkCow(o.v, cow_to_compound_list(v.v, cow_from_raw(a, r)))
                       ELSE o
    /\ op' = "from_raw.to_compound_list"
    /\ UNCHANGED <<a, b, third, idx, debug_assertions, plumber>>

\* KVal::join(KVal::from_raw(a, None), KVal::from_raw(other, None))
FromRawJoin ==
    /\ op = "init"
    /\ a \in Raws
    /\ \E other \in RawOperands, r \in Reads :
        /\ b' = other
        /\ reads' = r
        /\ res' = LET v == from_raw(a, None, debug_assertions, r)
                      w == from_raw(other, None, debug_assertions, r)
                  IN IF IsPanic(v) \/ IsPanic(w) THEN Panic
                     ELSE LET o == join(v.v, w.v) IN
                          IF IsOk(o)
                          THEN OkCow(o.v, cow_join(v.v, cow_from_raw(a, r),
                                                   w.v, cow_from_raw(other, r)))
                          ELSE o
    /\ op' = "from_raw.join"
    /\ UNCHANGED <<a, third, idx, srcs, debug_assertions, plumber>>

\* the Table KVal::from_raw(a, None) gives, then get_column
FromRawGetColumn ==
    /\ op = "init"
    /\ a \in RawTables
    /\ \E index \in Indices, enum_source \in OptSources, r \in Reads :
        /\ idx' = index
        /\ srcs' = <<enum_source>>
        /\ reads' = r
        /\ res' = LET v == from_raw(a, None, debug_assertions, r) IN
                  IF IsPanic(v) THEN Panic
                  ELSE LET o == get_column(v.v.table, index, enum_source) IN
                       IF IsOk(o)
                       THEN OkCow(o.v, cow_get_column(v.v.table,
                                           cow_from_raw(a, r), index))
                       ELSE o
    /\ op' = "from_raw.get_column"
    /\ UNCHANGED <<a, b, third, debug_assertions, plumber>>

\* the Table KVal::from_raw(a, None) gives, then get_row
FromRawGetRow ==
    /\ op = "init"
    /\ a \in RawTables
    /\ \E index \in Indices, enum_sources \in SeqsUpTo(OptSources, MaxSrcs),
          r \in Reads :
        /\ idx' = index
        /\ srcs' = enum_sources
        /\ reads' = r
        /\ res' = LET v == from_raw(a, None, debug_assertions, r) IN
                  IF IsPanic(v) THEN Panic
                  ELSE LET o == get_row(v.v.table, index, enum_sources) IN
                       IF IsOk(o)
                       THEN OkCow(o.v, cow_get_row(v.v.table,
                                           cow_from_raw(a, r), index))
                       ELSE o
    /\ op' = "from_raw.get_row"
    /\ UNCHANGED <<a, b, third, debug_assertions, plumber>>

\* KVal::len
LenOf ==
    /\ op = "init"
    /\ a \in Vals \cup DictVals \cup TableVals(debug_assertions)
    /\ res' = IF len(a) = PanicLen THEN Panic ELSE Ok(len(a))
    /\ op' = "len"
    /\ UNCHANGED <<a, b, third, idx, srcs, debug_assertions, reads, plumber>>

\* KData::len and KData::is_empty of the data of a simple variant or an Enum
KDataLen ==
    /\ op = "init"
    /\ a \in SimpleAtoms \cup SimpleLists \cup EnumAtoms \cup EnumLists
    /\ res' = Ok([len |-> KData_len(a), is_empty |-> KData_is_empty(a)])
    /\ op' = "KData::len"
    /\ UNCHANGED <<a, b, third, idx, srcs, debug_assertions, reads, plumber>>

\* to_compound_list(join(a, other)) next to
\* join(to_compound_list(a), to_compound_list(other)), a failure of a step
\* (the caller's `?`) being the failure of the whole side
JoinToCompoundList ==
    /\ op = "init"
    /\ a \in SimpleLists \cup EnumLists
    /\ \E other \in SimpleLists \cup EnumLists :
        /\ other.tag = a.tag
        /\ b' = other
        /\ res' = Ok([joined |->
                        LET j == join(a, other)
                        IN IF IsOk(j) THEN to_compound_list(j.v) ELSE j,
                      converted |->
                        LET x == to_compound_list(a)
                            y == to_compound_list(other)
                        IN IF ~IsOk(x) THEN x
                           ELSE IF ~IsOk(y) THEN y
                           ELSE join(x.v, y.v)])
    /\ op' = "join.to_compound_list"
    /\ UNCHANGED <<a, third, idx, srcs, debug_assertions, reads, plumber>>

\* join(join(a, other), last) next to join(a, join(other, last)), and
\* join(a, other) on its own; a failed inner join is the failure of the chain
JoinJoin ==
    /\ op = "init"
    /\ a \in Vals
    /\ \E other \in JoinOperands, last \in JoinOperands :
        /\ b' = other
        /\ third' = last
        /\ res' = Ok([left |->
                        LET ab == join(a, other)
                        IN IF IsOk(ab) THEN join(ab.v, last) ELSE ab,
                      right |->
                        LET bc == join(other, last)
                        IN IF IsOk(bc) THEN join(a, bc.v) ELSE bc,
                      ab |-> join(a, other)])
    /\ op' = "join.join"
    /\ UNCHANGED <<a, idx, srcs, debug_assertions, reads, plumber>>

Next ==
    \/ ToCompoundList
    \/ Join
    \/ ToList
    \/ KDictNew
    \/ KTableNew
    \/ GetColumn
    \/ GetRow
    \/ FromRaw
    \/ ToK
    \/ ModifyLongListABit
    \/ FromRawToCompoundList
    \/ FromRawJoin
    \/ FromRawGetColumn
    \/ FromRawGetRow
    \/ LenOf
    \/ KDataLen
    \/ JoinToCompoundList
    \/ JoinJoin

Spec == Init /\ [][Next]_vars

(***************************************************************************)
(* The steps of plumber, of its worker thread and of callback.             *)
(***************************************************************************)
rest == <<a, b, third, idx, srcs, debug_assertions, reads, op, res>>

\* q calls plumber
PlumberCall ==
    /\ plumber.main = "q"
    /\ plumber.calls < MaxCalls
    /\ plumber' = [plumber EXCEPT !.main = "pipe", !.calls = @ + 1,
                                  !.worker = "none", !.list = <<>>,
                                  !.pinned = FALSE, !.spawned = FALSE,
                                  !.ret = "none"]
    /\ UNCHANGED rest

\* libc::pipe(PIPE): 0 on success; otherwise plumber returns an error
PlumberPipe ==
    /\ plumber.main = "pipe"
    /\ \E failed \in BOOLEAN :
          plumber' = IF failed
                     THEN [plumber EXCEPT !.main = "return",
                               !.ret = "Failed to create pipe"]
                     ELSE [plumber EXCEPT !.main = "register_callback"]
    /\ UNCHANGED rest

\* register_callback(PIPE[0], callback): KNULL on failure
PlumberRegisterCallback ==
    /\ plumber.main = "register_callback"
    /\ \E failed \in BOOLEAN :
          plumber' = IF failed
                     THEN [plumber EXCEPT !.main = "return",
                               !.ret = "Failed to register callback"]
                     ELSE [plumber EXCEPT !.main = "pin_symbol"]
    /\ UNCHANGED rest

PlumberPinSymbol ==
    /\ plumber.main = "pin_symbol"
    /\ plumber' = [pin_symbol(plumber) EXCEPT !.main = "spawn"]
    /\ UNCHANGED rest

\* std::thread::spawn
PlumberSpawn ==
    /\ plumber.main = "spawn"
    /\ plumber' = [plumber EXCEPT !.main = "join", !.worker = "new_list",
                                  !.spawned = TRUE]
    /\ UNCHANGED rest

\* the worker: to_k of the symbol list allocates the list, ...
WorkerNewList ==
    /\ plumber.worker = "new_list"
    /\ plumber' = [plumber EXCEPT !.worker = "enumerate"]
    /\ UNCHANGED rest

\* ... interns the strings one by one, ...
WorkerEnumerate ==
    /\ plumber.worker = "enumerate"
    /\ plumber' =
          LET p == enumerate(plumber, precious[Len(plumber.list) + 1])
          IN IF Len(p.list) = Len(precious)
             THEN [p EXCEPT !.worker = "write"] ELSE p
    /\ UNCHANGED rest

\* ... and the worker writes the pointer of the list to the pipe
WorkerWrite ==
    /\ plumber.worker = "write"
    /\ plumber' = [plumber EXCEPT !.worker = "exited", !.pipe = @ + 1]
    /\ UNCHANGED rest

\* handle.join().unwrap(): returns once the worker has exited
PlumberJoin ==
    /\ plumber.main = "join"
    /\ plumber.worker = "exited"
    /\ plumber' = [plumber EXCEPT !.main = "unpin_symbol",
                                  !.worker = "joined"]
    /\ UNCHANGED rest

PlumberUnpinSymbol ==
    /\ plumber.main = "unpin_symbol"
    /\ plumber' = [unpin_symbol(plumber) EXCEPT !.main = "return",
                                                !.ret = "KNULL"]
    /\ UNCHANGED rest

\* plumber returns to q
PlumberReturn ==
    /\ plumber.main = "return"
    /\ plumber' = [plumber EXCEPT !.main = "q"]
    /\ UNCHANGED rest

\* q's main loop runs callback, which reads one pointer from the pipe
Callback ==
    /\ plumber.main = "q"
    /\ plumber.pipe > 0
    /\ plumber' = [plumber EXCEPT !.pipe = @ - 1]
    /\ UNCHANGED rest

PlumberInit ==
    /\ debug_assertions \in BOOLEAN
    /\ a = Null
    /\ b = Null
    /\ third = Null
    /\ reads = CHOOSE r \in Reads : r.intact
    /\ plumber = PlumberLoaded
    /\ idx = 0
    /\ srcs = <<>>
    /\ op = "init"
    /\ res = NoRes

PlumberNext ==
    \/ PlumberCall
    \/ PlumberPipe
    \/ PlumberRegisterCallback
    \/ PlumberPinSymbol
    \/ PlumberSpawn
    \/ WorkerNewList
    \/ WorkerEnumerate
    \/ WorkerWrite
    \/ PlumberJoin
    \/ PlumberUnpinSymbol
    \/ PlumberReturn
    \/ Callback

PlumberSpec == PlumberInit /\ [][PlumberNext]_vars

TypeOK == res.st \in {"None", "Ok", "Err", "Panic"}

(***************************************************************************)
(* Vocabulary of the properties.                                           *)
(***************************************************************************)
ScalarVariants == SimpleVariants \cup {"Enum"}
IsSimpleList(v) == v.tag \in ScalarVariants /\ IsListData(v)
IsAtom(v) == v.tag \in ScalarVariants /\ IsAtomData(v)
IsCompound(v) == v.tag = "CompoundList"
Elements(v) == IF IsCompound(v) THEN v.items ELSE v.list

\* r is x followed by y: nothing lost, nothing duplicated, nothing reordered
Concatenates(r, x, y) ==
    /\ Len(r) = Len(x) + Len(y)
    /\ \A i \in 1..Len(x) : r[i] = x[i]
    /\ \A i \in 1..Len(y) : r[Len(x) + i] = y[i]

\* one operand is an atom, the other an atom or a list of the same variant
AtomOperands(x, y) ==
    /\ x.tag \in ScalarVariants
    /\ y.tag = x.tag
    /\ IsAtomData(x) \/ IsAtomData(y)

Promote(v) == IF IsAtomData(v) THEN to_list(v).v ELSE v

NonJoinable == {"Error", "Null", "Char", "String", "Table", "Dictionary"}

(***************************************************************************)
(* C1: joining two simple lists of the same variant, or two compound       *)
(* lists, succeeds with a list of that variant holding base's elements in  *)
(* their order followed by other's elements in their order.                *)
(***************************************************************************)
C1_JoinConcatenates ==
    (/\ op = "join"
     /\ \/ IsSimpleList(a) /\ IsSimpleList(b) /\ a.tag = b.tag
        \/ IsCompound(a) /\ IsCompound(b))
    => /\ IsOk(res)
       /\ res.v.tag = a.tag
       /\ IsCompound(a) \/ IsListData(res.v)
       /\ Concatenates(Elements(res.v), Elements(a), Elements(b))

C1_Witness ==
    /\ op = "join"
    /\ IsSimpleList(a) /\ IsSimpleList(b) /\ a.tag = b.tag
    /\ Len(a.list) >= 1 /\ Len(b.list) >= 1
    /\ a.list[1] # b.list[1]
    /\ IsOk(res)

C3_JoinRejects ==
    (/\ op = "join"
     /\ \/ a.tag # b.tag
        \/ IsCompound(a) /\ IsSimpleList(b)
        \/ IsSimpleList(a) /\ IsCompound(b)
        \/ a.tag \in NonJoinable
        \/ b.tag \in NonJoinable)
    => IsErr(res)

C3_Witness ==
    /\ op = "join"
    /\ a.tag = "Int" /\ b.tag = "Symbol"
    /\ IsListData(a) /\ IsListData(b)
    /\ IsErr(res)

(***************************************************************************)
(* C4: the join of two Enum lists records base's source when base has      *)
(* one, otherwise other's, and none only when neither has one.             *)
(***************************************************************************)
C4_EnumJoinSource ==
    (op = "join" /\ a.tag = "Enum" /\ b.tag = "Enum"
        /\ IsListData(a) /\ IsListData(b))
    => /\ IsOk(res)
       /\ res.v.tag = "Enum"
       /\ a.src # None => res.v.src = a.src
       /\ a.src = None => res.v.src = b.src
       /\ res.v.src = None <=> (a.src = None /\ b.src = None)

C4_Witness ==
    /\ op = "join"
    /\ a.tag = "Enum" /\ b.tag = "Enum"
    /\ IsListData(a) /\ IsListData(b)
    /\ a.src = "e1" /\ b.src = "e2"
    /\ IsOk(res) /\ res.v.src = "e1"

(***************************************************************************)
(* C5: to_compound_list of a simple list (an Enum list with a source)      *)
(* returns a compound list of the same length whose i-th element is the    *)
(* atom of the same variant holding the i-th element (and the source).     *)
(***************************************************************************)
C5_ToCompoundBoxesEach ==
    (/\ op = "to_compound_list"
     /\ IsSimpleList(a)
     /\ a.tag = "Enum" => a.src # None)
    => /\ IsOk(res)
       /\ IsCompound(res.v)
       /\ Len(res.v.items) = Len(a.list)
       /\ \A i \in 1..Len(a.list) :
            /\ res.v.items[i].tag = a.tag
            /\ IsAtomData(res.v.items[i])
            /\ res.v.items[i].atom = a.list[i]
            /\ a.tag = "Enum" => res.v.items[i].src = a.src

C5_Witness ==
    /\ op = "to_compound_list"
    /\ a.tag = "Enum" /\ IsListData(a) /\ a.src # None
    /\ Len(a.list) >= 2 /\ a.list[1] # a.list[2]
    /\ IsOk(res)

(***************************************************************************)
(* C6: to_compound_list returns a compound list unchanged, and applying it *)
(* to its own successful result returns that result again.                 *)
(***************************************************************************)
C6_ToCompoundIdempotent ==
    op = "to_compound_list"
    => /\ IsCompound(a) => res = Ok(a)
       /\ IsOk(res) => to_compound_list(res.v) = res

C6_Witness ==
    /\ op = "to_compound_list"
    /\ IsCompound(a) /\ Len(a.items) >= 2 /\ a.items[1] # a.items[2]
    /\ res = Ok(a)

(***************************************************************************)
(* C7: to_compound_list returns Err for an Enum list without a source and  *)
(* for every atom, Char, Error, Null, Dictionary and Table.                *)
(***************************************************************************)
C7_ToCompoundRejects ==
    (/\ op = "to_compound_list"
     /\ \/ a.tag = "Enum" /\ IsListData(a) /\ a.src = None
        \/ IsAtom(a)
        \/ a.tag \in {"Char", "Error", "Null", "Dictionary", "Table"})
    => IsErr(res)

C7_Witness ==
    /\ op = "to_compound_list"
    /\ a.tag = "Enum" /\ IsListData(a) /\ a.src = None /\ Len(a.list) >= 1
    /\ IsErr(res)

(***************************************************************************)
(* C8: to_list of an atom returns the one-element list of the same variant *)
(* holding the atom's value (an Enum keeps its source); to_list of a       *)
(* Dictionary, Table, Error, Null, Char or String returns Err.             *)
(***************************************************************************)
C8_ToListPromotes ==
    op = "to_list"
    => /\ IsAtom(a) =>
            /\ IsOk(res)
            /\ res.v.tag = a.tag
            /\ IsListData(res.v)
            /\ Len(res.v.list) = 1
            /\ res.v.list[1] = a.atom
            /\ a.tag = "Enum" => res.v.src = a.src
       /\ a.tag \in {"Dictionary", "Table", "Error", "Null", "Char", "String"}
            => IsErr(res)

C8_Witness ==
    /\ op = "to_list"
    /\ a.tag = "Enum" /\ IsAtomData(a) /\ a.src = "e1"
    /\ IsOk(res)

(***************************************************************************)
(* C9: to_list of a value that is already a list (a compound list or a     *)
(* simple list, an Enum list with or without a source included) returns    *)
(* Ok with a value equal to its input, so applying it twice changes        *)
(* nothing.                                                                *)
(***************************************************************************)
C9_ToListNoOp ==
    (op = "to_list" /\ (IsCompound(a) \/ IsSimpleList(a)))
    => /\ res = Ok(a)
       /\ to_list(res.v) = res

(***************************************************************************)
(* C10: none of to_compound_list, join, to_list, KDict::new, KTable::new,  *)
(* get_column and get_row panics: each finishes by returning Ok or Err.    *)
(***************************************************************************)
C10_NoPanic ==
    op \in {"to_compound_list", "join", "to_list", "KDict::new", "KTable::new",
            "get_column", "get_row"}
    => res.st \in {"Ok", "Err"}

\* a list in the sense of the spec: compound, simple (Enum included) or string
IsListValue(v) == IsCompound(v) \/ IsSimpleList(v) \/ v.tag = "String"

\* the number of elements of a list value
Count(v) ==
    IF IsCompound(v) THEN Len(v.items)
    ELSE IF v.tag = "String" THEN Len(v.str)
    ELSE Len(v.list)

(***************************************************************************)
(* C11: KDict::new(keys, values) returns Ok exactly when keys is a list,   *)
(* values is a list and both have the same length; the dictionary then     *)
(* holds the two arguments unchanged; in every other case it returns Err.  *)
(***************************************************************************)
C11_KDictNewValidates ==
    op = "KDict::new"
    => /\ IsOk(res) <=>
            (IsListValue(a) /\ IsListValue(b) /\ Count(a) = Count(b))
       /\ IsOk(res) => res.v.keys = a /\ res.v.values = b
       /\ ~IsOk(res) => IsErr(res)

C11_Witness ==
    /\ op = "KDict::new"
    /\ a.tag = "Symbol" /\ IsListData(a) /\ Len(a.list) = 2
    /\ IsCompound(b) /\ Len(b.items) = 2
    /\ IsOk(res)

\* every column is a list and all columns have the length of the first
ColumnsAligned(columns) ==
    /\ \A i \in 1..Len(columns) : IsListValue(columns[i])
    /\ \A i \in 1..Len(columns) : Count(columns[i]) = Count(columns[1])

(***************************************************************************)
(* C13: KTable::new returns Err when the keys are not a symbol list or the *)
(* values are not a compound list; with debug assertions on it also        *)
(* returns Err when some column is not a list or the columns differ in     *)
(* length, and Ok otherwise; with debug assertions off it skips the column *)
(* check and accepts those tables.                                         *)
(***************************************************************************)
C13_KTableNewValidates ==
    op = "KTable::new"
    => LET keysOk == a.dict.keys.tag = "Symbol" /\ IsListData(a.dict.keys)
           valuesOk == IsCompound(a.dict.values)
       IN /\ ~(keysOk /\ valuesOk) => IsErr(res)
          /\ (keysOk /\ valuesOk /\ debug_assertions) =>
                IF ColumnsAligned(a.dict.values.items)
                THEN IsOk(res) /\ res.v.dict = a.dict
                ELSE IsErr(res)
          /\ (keysOk /\ valuesOk /\ ~debug_assertions) =>
                IsOk(res) /\ res.v.dict = a.dict

\* the columns of the table held in `a`, and whether a column index is valid
Columns(v) == v.table.dict.values.items
ValidColumn(v, i) == i >= 0 /\ i < Len(Columns(v))
IsEnumList(v) == v.tag = "Enum" /\ IsListData(v)

(***************************************************************************)
(* C14 as stated: get_column returns Err for an index that is negative or  *)
(* not smaller than the number of columns; for an in-range index whose     *)
(* column is not an Enum list it returns Ok with a list equal to the       *)
(* stored column; the table is left unchanged.                             *)
(***************************************************************************)
C14_GetColumnAnyColumn ==
    [][op' = "get_column" =>
          /\ a' = a
          /\ ~ValidColumn(a, idx') => IsErr(res')
          /\ (ValidColumn(a, idx') /\ ~IsEnumList(Columns(a)[idx' + 1])) =>
                /\ res' = Ok(Columns(a)[idx' + 1])
                /\ IsListValue(res'.v)]_vars

(***************************************************************************)
(* C14 amended: as stated for an in-range column that is a list other than *)
(* an Enum list; for an in-range column that is not a list get_column      *)
(* returns Err.                                                            *)
(***************************************************************************)
C14_GetColumnListColumn ==
    [][op' = "get_column" =>
          /\ a' = a
          /\ ~ValidColumn(a, idx') => IsErr(res')
          /\ (/\ ValidColumn(a, idx')
              /\ IsListValue(Columns(a)[idx' + 1])
              /\ ~IsEnumList(Columns(a)[idx' + 1])) =>
                res' = Ok(Columns(a)[idx' + 1])
          /\ (ValidColumn(a, idx') /\ ~IsListValue(Columns(a)[idx' + 1])) =>
                IsErr(res')]_vars

C14_Witness ==
    /\ op = "get_column"
    /\ idx = 1 /\ ValidColumn(a, idx)
    /\ Columns(a)[2].tag = "Long" /\ IsListData(Columns(a)[2])
    /\ Len(Columns(a)[2].list) >= 2
    /\ Columns(a)[1] # Columns(a)[2]
    /\ res = Ok(Columns(a)[2])

(***************************************************************************)
(* C15: for an Enum column, get_column(i, Some(s)) returns the column's    *)
(* indices attributed to s whatever source the column records;             *)
(* get_column(i, None) returns them attributed to the recorded source; and *)
(* with neither a recorded nor a supplied source get_column returns Err.   *)
(***************************************************************************)
C15_GetColumnEnumSource ==
    (op = "get_column" /\ ValidColumn(a, idx) /\ IsEnumList(Columns(a)[idx + 1]))
    => LET column == Columns(a)[idx + 1]
           supplied == srcs[1]
       IN /\ supplied # None => res = Ok(EnumList(column.list, supplied))
          /\ (supplied = None /\ column.src # None) =>
                res = Ok(EnumList(column.list, column.src))
          /\ (supplied = None /\ column.src = None) => IsErr(res)

C15_Witness ==
    /\ op = "get_column"
    /\ ValidColumn(a, idx) /\ IsEnumList(Columns(a)[idx + 1])
    /\ Columns(a)[idx + 1].src = "e1" /\ srcs = <<"e2">>
    /\ IsOk(res) /\ res.v.src = "e2"

\* length parity of a dictionary
Parity(d) ==
    /\ IsListValue(d.keys)
    /\ IsListValue(d.values)
    /\ Count(d.keys) = Count(d.values)

IsRawList(k) == ~IsNullPtr(k) /\ k.qtype \in (COMPOUND_LIST..ENUM_LIST) \ {3}
RawCount(k) == IF "ptrs" \in DOMAIN k THEN Len(k.ptrs) ELSE Len(k.list)

\* a raw dictionary: a pair of equal-length lists
WellFormedDict(k) ==
    /\ ~IsNullPtr(k)
    /\ k.qtype \in {DICTIONARY, SORTED_DICTIONARY}
    /\ Len(k.ptrs) = 2
    /\ IsRawList(k.ptrs[1]) /\ IsRawList(k.ptrs[2])
    /\ RawCount(k.ptrs[1]) = RawCount(k.ptrs[2])

\* a raw table: a dictionary from column names to a compound list of as many
\* columns, or from one column name to the lone column itself
WellFormedTable(k) ==
    /\ ~IsNullPtr(k)
    /\ k.qtype = TABLE
    /\ k.table.qtype = DICTIONARY
    /\ Len(k.table.ptrs) = 2
    /\ IsRawList(k.table.ptrs[1]) /\ IsRawList(k.table.ptrs[2])
    /\ IF k.table.ptrs[2].qtype = COMPOUND_LIST
       THEN RawCount(k.table.ptrs[1]) = RawCount(k.table.ptrs[2])
       ELSE RawCount(k.table.ptrs[1]) = 1

C16_GetRowOutOfRange ==
    (op = "get_row" /\ (idx < 0 \/ idx >= KTable_len(a.table)))
    => IsErr(res)

\* the number of Enum list columns before column j
EnumRank(columns, j) == Cardinality({i \in 1..(j - 1) : IsEnumList(columns[i])})

\* the source the claim attributes the Enum column j to
Attributed(columns, j, enum_sources) ==
    LET k == EnumRank(columns, j) IN
    IF k < Len(enum_sources) /\ enum_sources[k + 1] # None
    THEN enum_sources[k + 1]
    ELSE columns[j].src

ValidRow(v, i) == i >= 0 /\ i < KTable_len(v.table)

(***************************************************************************)
(* C17: for a table whose columns are lists of equal length and an         *)
(* in-range row index on which get_row succeeds, the result is a           *)
(* Dictionary keyed by the column names whose values are a compound list   *)
(* with one entry per column in column order: the atom of the column's     *)
(* variant holding that row of get_column, the element itself for a        *)
(* compound column, the character for a String column.                     *)
(***************************************************************************)
C17_GetRowMatchesColumns ==
    (/\ op = "get_row"
     /\ ColumnsAligned(Columns(a))
     /\ ValidRow(a, idx)
     /\ IsOk(res))
    => /\ res.v.tag = "Dictionary"
       /\ res.v.dict.keys = a.table.dict.keys
       /\ IsCompound(res.v.dict.values)
       /\ Len(res.v.dict.values.items) = Len(Columns(a))
       /\ \A j \in 1..Len(Columns(a)) :
            LET column == Columns(a)[j]
                cell == res.v.dict.values.items[j]
            IN IF IsCompound(column) THEN cell = column.items[idx + 1]
               ELSE IF column.tag = "String" THEN cell = Char(column.str[idx + 1])
               ELSE /\ cell.tag = column.tag
                    /\ IsAtomData(cell)
                    /\ LET g == get_column(a.table, j - 1,
                                           IF IsEnumList(column) THEN cell.src ELSE None)
                       IN /\ IsOk(g)
                          /\ cell.atom = g.v.list[idx + 1]
                          /\ IsEnumList(column) => cell.src = g.v.src

C17_Witness ==
    /\ op = "get_row"
    /\ idx = 1
    /\ Len(Columns(a)) = 2 /\ ColumnsAligned(Columns(a))
    /\ Columns(a)[1].tag = "Long" /\ Columns(a)[2].tag = "String"
    /\ IsOk(res)
    /\ res.v.dict.values.items[1] = Atom("Long", Columns(a)[1].list[2])

(***************************************************************************)
(* C18: in get_row the k-th Enum column is attributed to enum_sources[k]   *)
(* when the caller supplies a source there and otherwise (entry missing or *)
(* None) to the source recorded on the column; get_row fails for an Enum   *)
(* column only when neither is available.                                  *)
(***************************************************************************)
C18_GetRowEnumSources ==
    (op = "get_row" /\ ColumnsAligned(Columns(a)) /\ ValidRow(a, idx))
    => /\ IsOk(res) =>
            \A j \in 1..Len(Columns(a)) :
                IsEnumList(Columns(a)[j]) =>
                    res.v.dict.values.items[j].src = Attributed(Columns(a), j, srcs)
       /\ (\A j \in 1..Len(Columns(a)) :
                IsEnumList(Columns(a)[j]) => Attributed(Columns(a), j, srcs) # None)
            => IsOk(res)

\* the tags KVal::from has a variant for
HasVariant(t) ==
    t \in {ERROR, TABLE, DICTIONARY, SORTED_DICTIONARY}
          \cup ((ENUM_ATOM..ENUM_LIST) \ {-3, 3})

(***************************************************************************)
(* C19: KVal::from_raw returns Null for the null pointer, and for every    *)
(* raw value, whatever its tag, it returns a variant rather than failing;  *)
(* a tag that has no variant of its own (-3, 3, 21..97, 100, 101, the      *)
(* foreign tag 112) gives Null.                                            *)
(***************************************************************************)
C19_DispatchTotal ==
    op = "KVal::from_raw"
    => /\ IsNullPtr(a) => res = Ok(Null)
       /\ ~IsNullPtr(a) => IsOk(res)
       /\ (~IsNullPtr(a) /\ ~HasVariant(a.qtype)) => res = Ok(Null)

ScalarTag(t) == t \in (ENUM_ATOM..-1) \cup (1..ENUM_LIST)

(***************************************************************************)
(* C20: for every raw atom of tag -20..-1 and every raw simple list of tag *)
(* 1..20, with or without an enum source from the caller,                  *)
(* to_k(KVal::from(raw)) completes and gives a raw value of the same tag   *)
(* and the same content: the same payload for an atom, the same elements   *)
(* in the same order for a list.                                           *)
(***************************************************************************)
C20_RoundTrip ==
    (op = "to_k" /\ ~IsNullPtr(a) /\ ScalarTag(a.qtype))
    => /\ IsOk(res)
       /\ res.v.qtype = a.qtype
       /\ a.qtype < 0 => res.v.value = a.value
       /\ a.qtype > 0 => res.v.list = a.list

RECURSIVE HasBorrowed(_)
HasBorrowed(cw) ==
    IF "cow" \in DOMAIN cw THEN cw.cow = "Borrowed"
    ELSE IF "items" \in DOMAIN cw
    THEN \E i \in 1..Len(cw.items) : HasBorrowed(cw.items[i])
    ELSE HasBorrowed(cw.keys) \/ HasBorrowed(cw.values)

StructuralOnDispatched ==
    {"from_raw.to_compound_list", "from_raw.join", "from_raw.get_column",
     "from_raw.get_row"}

(***************************************************************************)
(* C22: the value join, to_compound_list, get_column or get_row returns    *)
(* for operands obtained by dispatch holds no KData in the Borrowed state. *)
(***************************************************************************)
C22_FreshOwnedData ==
    (op \in StructuralOnDispatched /\ IsOk(res)) => ~HasBorrowed(res.cow)

FallibleOperations ==
    {"to_compound_list", "join", "to_list", "KDict::new", "KTable::new",
     "get_column", "get_row"}

(***************************************************************************)
(* C23: every error message to_compound_list, join, to_list, KDict::new,   *)
(* KTable::new, get_column and get_row return ends with exactly one NUL.   *)
(***************************************************************************)
C23_MessagesNulTerminated ==
    (op \in FallibleOperations /\ IsErr(res)) => res.err.nul = 1

C23_Witness ==
    /\ op = "get_row"
    /\ IsErr(res)
    /\ res.err.text = "index out of bounds"
    /\ res.err.nul = 1

\* what the claim says KVal::len returns
Length(v) ==
    CASE v.tag \in {"Char", "Error", "Null"} -> 1
      [] v.tag = "String" -> Len(v.str)
      [] v.tag = "CompoundList" -> Len(v.items)
      [] v.tag = "Dictionary" -> Count(v.dict.keys)
      [] v.tag = "Table" ->
            IF Columns(v) = <<>> THEN 0
            ELSE IF IsListValue(Columns(v)[1]) THEN Count(Columns(v)[1]) ELSE 1
      [] OTHER -> IF IsAtomData(v) THEN 1 ELSE Len(v.list)

(***************************************************************************)
(* C24: KVal::len returns 1 for an atom, a Char, an Error and Null, the    *)
(* number of elements for a simple list, a string and a compound list, the *)
(* number of keys for a Dictionary and, for a Table, the length of column  *)
(* 0, or 0 without columns; KData::len returns 1 for an Atom and the       *)
(* number of elements for a List, and only an empty List is empty.         *)
(***************************************************************************)
C24_Len ==
    /\ op = "len" => res = Ok(Length(a))
    /\ op = "KData::len"
        => /\ res.v.len = (IF IsAtomData(a) THEN 1 ELSE Len(a.list))
           /\ IsAtomData(a) => ~res.v.is_empty
           /\ IsListData(a) => (res.v.is_empty <=> a.list = <<>>)

C24_Witness ==
    /\ op = "len"
    /\ a.tag = "Table"
    /\ Len(Columns(a)) = 2
    /\ Columns(a)[1].tag = "Long" /\ IsListData(Columns(a)[1])
    /\ Len(Columns(a)[1].list) = 2
    /\ res = Ok(2)

(***************************************************************************)
(* C25: in plumber the pin is acquired before the worker is spawned and    *)
(* released only after the worker has been joined, so the worker runs, and *)
(* interns, only while the pin is set; the pin is clear when plumber       *)
(* returns; on the early error returns the pin was never set and no        *)
(* thread was spawned.                                                     *)
(***************************************************************************)
WorkerRunning ==
    plumber.worker \in {"new_list", "enumerate", "write", "exited"}

EarlyReturn ==
    /\ plumber.main = "return"
    /\ plumber.ret \in {"Failed to create pipe", "Failed to register callback"}

C25_PinAroundWorker ==
    /\ WorkerRunning => plumber.setm = 1 /\ plumber.pinned
    /\ plumber.spawned => plumber.pinned
    /\ plumber.main = "unpin_symbol" => plumber.worker = "joined"
    /\ plumber.main = "return" => plumber.setm = 0 /\ ~WorkerRunning
    /\ EarlyReturn => ~plumber.pinned /\ ~plumber.spawned
                         /\ plumber.worker = "none"

C25_Witness ==
    /\ plumber.worker = "enumerate"
    /\ plumber.list = <<"belief", "love">>
    /\ plumber.setm = 1
    /\ plumber.calls = MaxCalls

(***************************************************************************)
(* C26: KVal::from_raw of a raw value tagged -128 gives Error carrying its *)
(* message, of a well-formed raw dictionary tagged 99 or 127 gives         *)
(* Dictionary, and of a well-formed raw table gives Table: the list access *)
(* of these arms succeeds for each of these tags.                          *)
(***************************************************************************)
C26_NonScalarDispatch ==
    (op = "KVal::from_raw" /\ ~IsNullPtr(a))
    => /\ a.qtype = ERROR => IsOk(as_slice(a)) /\ res = Ok(Error(a.symbol))
       /\ WellFormedDict(a) => /\ IsOk(as_slice(a))
                               /\ IsOk(res)
                               /\ res.v.tag = "Dictionary"
       /\ WellFormedTable(a) => IsOk(res) /\ res.v.tag = "Table"

\* the same, for the tags 99 and 98 only and with every read through a
\* reference giving the value that was stored
C26_Tags99And98 ==
    (op = "KVal::from_raw" /\ ~IsNullPtr(a) /\ reads.intact)
    => /\ (WellFormedDict(a) /\ a.qtype = DICTIONARY)
            => IsOk(res) /\ res.v.tag = "Dictionary"
       /\ WellFormedTable(a) => IsOk(res) /\ res.v.tag = "Table"

\* the table has a compound list of columns, each a list; a lone column that
\* came without a compound list is the only element and the keys are those of
\* the raw dictionary
Normalised(k, t) ==
    /\ t.dict.values.tag = "CompoundList"
    /\ \A j \in 1..Len(t.dict.values.items) : IsListValue(t.dict.values.items[j])
    /\ k.table.ptrs[2].qtype # COMPOUND_LIST
        => /\ Len(t.dict.values.items) = 1
           /\ t.dict.values.items[1].tag = variant(k.table.ptrs[2].qtype)
           /\ t.dict.values.items[1].list = k.table.ptrs[2].list
           /\ t.dict.keys = List("Symbol", k.table.ptrs[1].list)

C27_IntactReads ==
    (op = "KVal::from_raw" /\ WellFormedTable(a) /\ reads.intact)
    => /\ IsOk(res)
       /\ res.v.tag = "Table"
       /\ Normalised(a, res.v.table)

\* every Enum in the tree of v has the source src
RECURSIVE EnumsHave(_, _)
EnumsHave(v, src) ==
    CASE v.tag = "Enum" -> v.src = src
      [] v.tag = "CompoundList" ->
            \A i \in 1..Len(v.items) : EnumsHave(v.items[i], src)
      [] v.tag = "Dictionary" ->
            EnumsHave(v.dict.keys, src) /\ EnumsHave(v.dict.values, src)
      [] v.tag = "Table" ->
            EnumsHave(v.table.dict.keys, src) /\ EnumsHave(v.table.dict.values, src)
      [] OTHER -> TRUE

(***************************************************************************)
(* C28: KVal::from_raw(k, Some(src)) attaches src to every Enum of the     *)
(* value it returns: the top-level enum atom or list, the enums nested in  *)
(* compound lists, and the enums inside the keys, the values and the       *)
(* columns of dictionaries and tables.                                     *)
(***************************************************************************)
C28_EnumSourceEverywhere ==
    (op = "KVal::from_raw" /\ IsOk(res) /\ srcs[1] # None)
    => EnumsHave(res.v, srcs[1])

\* the same outside dictionaries and tables
C28_OutsideDictionaries ==
    (op = "KVal::from_raw" /\ IsOk(res) /\ srcs[1] # None
        /\ res.v.tag \notin {"Dictionary", "Table"})
    => EnumsHave(res.v, srcs[1])

(***************************************************************************)
(* C29 as stated: for two simple lists a and b of the same variant on      *)
(* which both sides succeed, to_compound_list(join(a, b)) equals           *)
(* join(to_compound_list(a), to_compound_list(b)), element by element, the *)
(* source of each Enum atom included.                                      *)
(***************************************************************************)
C29_JoinConvertCommute ==
    (op = "join.to_compound_list" /\ IsOk(res.v.joined) /\ IsOk(res.v.converted))
    => res.v.joined = res.v.converted

(***************************************************************************)
(* C29: the two sides are equal for lists that are not Enum lists and for  *)
(* Enum lists with the same recorded source; for Enum lists with different *)
(* recorded sources every atom of to_compound_list(join(a, b)) has the     *)
(* source of a, while the other side keeps the source of b on b's atoms.   *)
(***************************************************************************)
C29_CommuteSameSource ==
    (op = "join.to_compound_list" /\ IsOk(res.v.joined) /\ IsOk(res.v.converted))
    => /\ (a.tag = "Enum" => a.src = b.src) => res.v.joined = res.v.converted
       /\ a.tag = "Enum" =>
            /\ res.v.joined.v =
                 CompoundList([i \in 1..(Len(a.list) + Len(b.list)) |->
                    EnumAtom((a.list \o b.list)[i], a.src)])
            /\ res.v.converted.v =
                 CompoundList([i \in 1..(Len(a.list) + Len(b.list)) |->
                    EnumAtom((a.list \o b.list)[i],
                             IF i <= Len(a.list) THEN a.src ELSE b.src)])

C29_Witness ==
    /\ op = "join.to_compound_list"
    /\ a.tag = "Enum" /\ a.src = "e1" /\ b.src = "e1"
    /\ Len(a.list) = MaxLen /\ Len(b.list) = 1 /\ a.list[1] # a.list[2]
    /\ IsOk(res.v.joined)
    /\ res.v.joined = res.v.converted

(***************************************************************************)
(* C30: join(join(a, b), c) and join(a, join(b, c)) both fail or both      *)
(* succeed with equal results (same variant, same elements in the same     *)
(* order, same enum source), and whenever join(a, b) succeeds the length   *)
(* of its result is len(a) + len(b).                                       *)
(***************************************************************************)
C30_JoinAssociative ==
    op = "join.join"
    => /\ IsOk(res.v.left) <=> IsOk(res.v.right)
       /\ IsOk(res.v.left) => res.v.left = res.v.right
       /\ IsOk(res.v.ab) => len(res.v.ab.v) = len(a) + len(b)

C30_Witness ==
    /\ op = "join.join"
    /\ a = EnumList(Ramp(MaxLen), None)
    /\ b = EnumList(Ramp(1), None)
    /\ third = EnumList(Ramp(1), "e2")
    /\ IsOk(res.v.left)
    /\ res.v.left = res.v.right
    /\ res.v.left.v.src = "e2"
    /\ len(res.v.left.v) = MaxLen + 2

====
